---- MODULE Spec2Model ----
(***************************************************************************)
(* Model of copy_db_poc.py: reflect a source database, rewrite every       *)
(* reflected column type into a generic one, and copy each table, row by   *)
(* row, into a prefixed, constraint-free table of the destination.         *)
(*                                                                         *)
(* Two specifications live here:                                           *)
(*   Spec      - main(): fixtures, copy_db, copy_table, on two databases;  *)
(*   SpecTypes - get_generic_type applied to every type of a bounded set.  *)
(***************************************************************************)
EXTENDS Integers, Sequences, FiniteSets, TLC

VARIABLES
    db_in,      \* the source database: table name -> table
    dst,        \* the destination database: table name -> table
    pc,         \* position of the process in main / copy_db / copy_table
    should_install_fixtures,  \* main's argument
    metadata,   \* copy_db: the reflected Table descriptors, by name
    order,      \* copy_db: list(reversed(metadata.sorted_tables)), as names
    ti,         \* copy_db: index in order of the table being copied
    out_table,  \* copy_table: the derived destination descriptor
    i,          \* copy_table: number of source rows already fetched
    exc,        \* the exception that ended the run ("None" if none)
    raised_in,  \* the function whose statement raised it
    status,     \* exit status of the process (-1 while it runs)
    runs,       \* number of invocations of main so far
    faults,     \* number of database errors the environment has produced
    log,        \* history: database operations of the current run
    created,    \* history: destination tables created by copy_table
    prev_ok,    \* history: the previous run returned 0
    prev_dst,   \* history: the destination as the previous run left it
    gt_pc,      \* SpecTypes: position around one call of get_generic_type
    gt_in,      \* SpecTypes: the argument
    gt_out      \* SpecTypes: the outcome

vars == <<db_in, dst, pc, should_install_fixtures, metadata, order, ti,
          out_table, i, exc, raised_in, status, runs, faults, log, created,
          prev_ok, prev_dst, gt_pc, gt_in, gt_out>>

copy_vars == <<db_in, dst, pc, should_install_fixtures, metadata, order, ti,
               out_table, i, exc, raised_in, status, runs, faults, log,
               created, prev_ok, prev_dst>>

gt_vars == <<gt_pc, gt_in, gt_out>>

----------------------------------------------------------------------------
(* Bounds of the model *)

MaxRows == 2

MaxRuns == 2

MaxFaults == 1

----------------------------------------------------------------------------
(* Program constants *)

TABLE_PREFIX == "dbin_"

UUID_LENGTH == 36

DEFAULT_STRING_LENGTH == 512

\* Python's None, as the length of a type that declares none
None == -1

----------------------------------------------------------------------------
(* Column types.  A type is [dialect, family, length]: the dialect that    *)
(* owns the class ("generic" for sqlalchemy.types), its family, and the    *)
(* length attribute (None for the families that have none).  The families  *)
(* "Opaque" and "Broken" stand for the types whose as_generic() raises     *)
(* NotImplementedError, and some other exception, respectively.            *)

Dialects == {"postgresql", "generic"}

Families == {"UUID", "String", "Text", "Integer", "Opaque", "Broken"}

Lengths == {None, 0, 1, UUID_LENGTH, 255, DEFAULT_STRING_LENGTH}

Types == [dialect : Dialects, family : Families, length : Lengths]

Type(d, f, l) == [dialect |-> d, family |-> f, length |-> l]

\* String(length=n)
String(n) == Type("generic", "String", n)

\* isinstance(t, sqlalchemy.dialects.postgresql.UUID)
IsPostgresUUID(t) == t.dialect = "postgresql" /\ t.family = "UUID"

\* isinstance(t, String): Text is a subclass of String
IsString(t) == t.family \in {"String", "Text"}

\* an outcome of a call: the exception raised ("None" if it returned) and
\* the value returned
Returned(v) == [exc |-> "None", val |-> v]

Raised(e, v) == [exc |-> e, val |-> v]

\* type.as_generic(): the class of the same family in sqlalchemy.types, built
\* with the same arguments; NotImplementedError when the family has no
\* generic class (the PostgreSQL UUID is such a family)
as_generic(t) ==
    CASE t.family \in {"Opaque", "UUID"} -> Raised("NotImplementedError", t)
      [] t.family = "Broken" -> Raised("TypeError", t)
      [] OTHER -> Returned(Type("generic", t.family, t.length))

\* Falsy, were a length of zero taken for a length
FalsyNoneOnly(l) == l = None

\* "not new.length": None and 0 are false
Falsy(l) == l = None \/ l = 0

get_generic_type(type) ==
    IF IsPostgresUUID(type)
    THEN Returned(String(UUID_LENGTH))
    ELSE LET new == as_generic(type) IN
         CASE new.exc = "None" ->
                  IF IsString(new.val) /\ Falsy(new.val.length)
                  THEN Returned([new.val EXCEPT !.length = DEFAULT_STRING_LENGTH])
                  ELSE Returned(new.val)
           [] new.exc = "NotImplementedError" -> Returned(type)
           [] OTHER -> Raised(new.exc, type)

----------------------------------------------------------------------------
(* SpecTypes: one call of get_generic_type per behaviour *)

GtInit ==
    /\ gt_pc = "idle"
    /\ gt_in = Type("generic", "Integer", None)
    /\ gt_out = Returned(Type("generic", "Integer", None))

GtCall ==
    /\ gt_pc = "idle"
    /\ \E t \in Types : gt_in' = t
    /\ gt_pc' = "called"
    /\ UNCHANGED gt_out

GtReturn ==
    /\ gt_pc = "called"
    /\ gt_out' = get_generic_type(gt_in)
    /\ gt_pc' = IF gt_out'.exc = "None" THEN "returned" ELSE "raised"
    /\ UNCHANGED gt_in

----------------------------------------------------------------------------
(* Databases.  A column is [name, type, default]; a constraint is          *)
(* [kind, ref] (ref: the table a foreign key refers to); a table is        *)
(* [name, columns, constraints, indexes, rows], a row being the tuple of   *)
(* its values in the order of the columns.  A Table descriptor of          *)
(* sqlalchemy is [name, columns, constraints, indexes].                    *)

Column(n, t, d) == [name |-> n, type |-> t, default |-> d]

Pg(f, l) == Type("postgresql", f, l)

Range(s) == {s[k] : k \in DOMAIN s}

\* the columns of the tables a source database may hold
SourceColumns(t) ==
    CASE t = "users" ->
             <<Column("id", Pg("UUID", None), TRUE),
               Column("num", Pg("Integer", None), FALSE),
               Column("full_name", Pg("String", None), FALSE)>>
      [] t = "orders" ->
             <<Column("id", Pg("Integer", None), TRUE),
               Column("note", Pg("Text", None), FALSE),
               Column("code", Pg("String", 255), FALSE)>>
      [] t = "items" ->
             <<Column("sku", Pg("String", 0), FALSE),
               Column("geo", Pg("Opaque", None), FALSE)>>
      [] OTHER ->
             <<Column("x", Pg("Broken", None), FALSE)>>

\* a source schema: its tables and its foreign keys <<referencing, referenced>>
Schema(ts, fks) == [tables |-> ts, fks |-> fks]

Schemas ==
    { Schema({}, {}),
      Schema({"users"}, {}),
      Schema({"orders"}, {<<"orders", "orders">>}),
      Schema({"users", "orders"}, {<<"orders", "users">>}),
      Schema({"users", "orders", "items"},
             {<<"items", "orders">>, <<"orders", "users">>}),
      Schema({"users", "orders", "items"},
             {<<"orders", "users">>, <<"items", "users">>}),
      Schema({"users", "orders", "items"},
             {<<"users", "orders">>, <<"orders", "users">>, <<"items", "users">>}),
      Schema({"users", "bad"}, {}) }

SourceConstraints(t, fks) ==
    {[kind |-> "pk", ref |-> ""]}
        \cup {[kind |-> "fk", ref |-> e[2]] : e \in {f \in fks : f[1] = t}}

SourceIndexes(t) == IF t = "orders" THEN {"ix_orders_code"} ELSE {}

\* the k-th row of a source table: rows 1, 2, 3, ... of orders are equal,
\* equal, different, ... and those of the other tables different, equal, ...
\* (equal rows: the destination has no key); the values of one row differ
\* from column to column
SourceRow(t, k) ==
    LET v == IF t = "orders" THEN (k + 1) \div 2 ELSE (k \div 2) + 1
    IN  [j \in 1..Len(SourceColumns(t)) |-> v * 10 + j]

SourceTable(t, fks, n) ==
    [name |-> t,
     columns |-> SourceColumns(t),
     constraints |-> SourceConstraints(t, fks),
     indexes |-> SourceIndexes(t),
     rows |-> [k \in 1..n |-> SourceRow(t, k)]]

SourceDb(schema, nrows) ==
    [t \in schema.tables |-> SourceTable(t, schema.fks, nrows[t])]

EmptyDb == [t \in {} |-> 0]

\* a destination that a former tool left behind
StaleDb ==
    [t \in {"dbin_users", "other"} |->
        [name |-> t,
         columns |-> <<Column("old", Type("generic", "Integer", None), FALSE)>>,
         constraints |-> {[kind |-> "pk", ref |-> ""]},
         indexes |-> {"ix_old"},
         rows |-> << <<99>> >>]]

NoTable == [name |-> "", columns |-> <<>>, constraints |-> {}, indexes |-> {}]

----------------------------------------------------------------------------
(* metadata.reflect with the column_reflect listener *)

\* genericize_datatypes: the listener's effect on one reflected column
genericize_datatypes(col) ==
    LET g == get_generic_type(col.type) IN
    IF g.exc = "None"
    THEN Returned(Column(col.name, g.val, FALSE))
    ELSE Raised(g.exc, col)

\* Reflect, were the listener not registered: the types stay as reflected
ReflectRaw(db) ==
    [t \in DOMAIN db |->
        [name |-> db[t].name,
         columns |-> db[t].columns,
         constraints |-> db[t].constraints,
         indexes |-> db[t].indexes]]

\* metadata.reflect(bind=in_engine): the exception of the first listener call
\* that raises, else the descriptors of all the tables
ReflectErrors(db) ==
    {genericize_datatypes(c).exc :
        c \in UNION {Range(db[t].columns) : t \in DOMAIN db}} \ {"None"}

Reflect(db) ==
    [t \in DOMAIN db |->
        [name |-> db[t].name,
         columns |-> [k \in DOMAIN db[t].columns |->
                         genericize_datatypes(db[t].columns[k]).val],
         constraints |-> db[t].constraints,
         indexes |-> db[t].indexes]]

----------------------------------------------------------------------------
(* metadata.sorted_tables *)

\* the tables by key
KeyOrder == <<"bad", "items", "orders", "users">>

SortByKey(S) == SelectSeq(KeyOrder, LAMBDA t : t \in S)

\* <<parent, child>>: child holds a foreign key to parent, another table
Dependencies(md) ==
    UNION {{<<c.ref, t>> : c \in {c \in md[t].constraints :
                                      c.kind = "fk" /\ c.ref # t}} :
           t \in DOMAIN md}

Children(S, E) == {e[2] : e \in {e \in E : e[1] \in S}}

RECURSIVE Reachable(_, _, _)
Reachable(S, E, k) ==
    IF k = 0 THEN S ELSE Reachable(S \cup Children(S, E), E, k - 1)

\* the tables that lie on a cycle of dependencies
Cycles(N, E) ==
    {n \in N : n \in Reachable(Children({n}, E), E, Cardinality(N))}

\* topological.sort: the tables none of whose parents is still to do, in the
\* order given, then the rest in the same way
RECURSIVE TopologicalSort(_, _)
TopologicalSort(todo, E) ==
    IF todo = <<>> THEN <<>>
    ELSE LET left == Range(todo)
             output == SelectSeq(todo, LAMBDA n :
                           \A e \in E : e[2] = n => e[1] \notin left)
         IN  IF output = <<>> THEN todo
             ELSE output \o TopologicalSort(
                      SelectSeq(todo, LAMBDA n : n \notin Range(output)), E)

\* sort_tables: on a cycle, the foreign keys of the tables of the cycle are
\* left out of the sort (with a warning)
sorted_tables(md) ==
    LET E == Dependencies(md)
        cyc == Cycles(DOMAIN md, E)
    IN  TopologicalSort(SortByKey(DOMAIN md), {e \in E : e[2] \notin cyc})

\* Reverse, were the tables taken in the order of sorted_tables
NotReversed(s) == s

Reverse(s) == [k \in 1..Len(s) |-> s[Len(s) + 1 - k]]

----------------------------------------------------------------------------
(* setup_fixtures and its call by main *)

\* setup_fixtures(in_engine): drop and create the table users, insert one row
\* (id: the column default uuid4(), here u)
setup_fixtures(db, u) ==
    LET users == [name |-> "users",
                  columns |-> SourceColumns("users"),
                  constraints |-> {[kind |-> "pk", ref |-> ""]},
                  indexes |-> {},
                  rows |-> << <<u, 2, 3>> >>]
    IN  [t \in DOMAIN db \cup {"users"} |-> IF t = "users" THEN users ELSE db[t]]

\* the parameters of setup_fixtures, and the keywords main calls it with
SetupFixturesParameters == {"in_engine"}

SetupFixturesCallKeywords == {"in_db_url"}

\* a Python call binds when every keyword names a parameter and every
\* parameter (none has a default) is given; else it raises TypeError
CallBinds(parameters, keywords) == keywords = parameters

Uuids == {71, 72}

----------------------------------------------------------------------------
(* copy_table, statement by statement *)

\* DeriveOutTable, were the constraints and the indexes left on the copy
DeriveOutTableWithConstraints(md, t) ==
    [out_table |-> [md[t] EXCEPT !.name = TABLE_PREFIX \o md[t].name],
     metadata |-> md]

\* out_table = copy.copy(table) and the three assignments to the copy: the
\* new descriptor, and the descriptors of metadata after them
DeriveOutTable(md, t) ==
    [out_table |-> [md[t] EXCEPT !.name = TABLE_PREFIX \o md[t].name,
                                 !.constraints = {},
                                 !.indexes = {}],
     metadata |-> md]

\* DropIfExists, were the drop left out
DropNothing(db, name) == db

\* out_table.drop(out_engine, checkfirst=True)
DropIfExists(db, name) == [t \in DOMAIN db \ {name} |-> db[t]]

\* out_table.create(out_engine): the table, without rows
CreateTable(db, tbl) ==
    [t \in DOMAIN db \cup {tbl.name} |->
        IF t = tbl.name
        THEN [name |-> tbl.name, columns |-> tbl.columns,
              constraints |-> tbl.constraints, indexes |-> tbl.indexes,
              rows |-> <<>>]
        ELSE db[t]]

ColumnNames(cols) == {cols[k].name : k \in DOMAIN cols}

\* the k-th row of select(table), as the mapping from column name to value
\* that ** expands
FetchRow(db, table, k) ==
    [n \in ColumnNames(table.columns) |->
        LET j == CHOOSE j \in DOMAIN db[table.name].columns :
                     db[table.name].columns[j].name = n
        IN  db[table.name].rows[k][j]]

\* InsertRow, were a row equal to a stored one not inserted again
InsertRowOnce(db, tbl, r) ==
    LET new == [j \in DOMAIN db[tbl.name].columns |->
                   r[db[tbl.name].columns[j].name]]
    IN  IF new \in Range(db[tbl.name].rows)
        THEN db
        ELSE [db EXCEPT ![tbl.name].rows = Append(@, new)]

\* out_table.insert().values(**r), executed: each value under the column of
\* its name; every execute is committed on its own
InsertRow(db, tbl, r) ==
    [db EXCEPT ![tbl.name].rows =
        Append(@, [j \in DOMAIN db[tbl.name].columns |->
                      r[db[tbl.name].columns[j].name]])]

\* ConnectionExit, were the inserts of the connection rolled back on exit
ConnectionExitRollback(db, name) == [db EXCEPT ![name].rows = <<>>]

\* the with blocks of lines 88-89 are left, by the end of the loop or by an
\* exception: the connections close, and nothing is rolled back, every
\* insert having been committed when it was executed
ConnectionExit(db, name) == db

\* Propagate, were the exception swallowed where it was raised
PropagateSwallowed(e, p) == p

\* where an exception raised at position p of copy_table, copy_db or main
\* takes the process: none of the three has a handler
Propagate(e, p) == "raised"

Event(op, t, ok) == [op |-> op, table |-> t, ok |-> ok]

\* the reflected descriptor copy_table is working on
table == metadata[order[ti]]

----------------------------------------------------------------------------
(* The process *)

CopyInit ==
    /\ \E schema \in Schemas :
           \E nrows \in [schema.tables -> 0..MaxRows] :
               db_in = SourceDb(schema, nrows)
    /\ dst \in {EmptyDb, StaleDb}
    /\ pc = "idle"
    /\ should_install_fixtures = FALSE
    /\ metadata = EmptyDb
    /\ order = <<>>
    /\ ti = 0
    /\ out_table = NoTable
    /\ i = 0
    /\ exc = "None"
    /\ raised_in = ""
    /\ status = -1
    /\ runs = 0
    /\ faults = 0
    /\ log = <<>>
    /\ created = {}
    /\ prev_ok = FALSE
    /\ prev_dst = dst

\* the statement at position pc raises e in function f
Raise(e, f) ==
    /\ pc' = Propagate(e, pc)
    /\ exc' = e
    /\ raised_in' = f
    /\ status' = IF pc' = "raised" THEN 1 ELSE status

\* the process is started: main(should_install_fixtures=flag), lines 133-136
Main(flag) ==
    /\ pc \in {"idle", "returned", "raised"}
    /\ runs < MaxRuns
    /\ runs' = runs + 1
    /\ should_install_fixtures' = flag
    /\ pc' = "main"
    /\ metadata' = EmptyDb
    /\ order' = <<>>
    /\ ti' = 0
    /\ out_table' = NoTable
    /\ i' = 0
    /\ exc' = "None"
    /\ raised_in' = ""
    /\ status' = -1
    /\ log' = <<>>
    /\ prev_ok' = (pc = "returned")
    /\ prev_dst' = dst
    /\ UNCHANGED <<db_in, dst, faults, created>>

\* lines 138-139: setup_fixtures(in_db_url=in_db_url)
InstallFixtures ==
    /\ pc = "main"
    /\ should_install_fixtures
    /\ IF CallBinds(SetupFixturesParameters, SetupFixturesCallKeywords)
       THEN /\ \E u \in Uuids : db_in' = setup_fixtures(db_in, u)
            /\ pc' = "copy_db"
            /\ log' = Append(log, Event("fixtures", "users", TRUE))
            /\ UNCHANGED <<exc, raised_in, status>>
       ELSE /\ Raise("TypeError", "main")
            /\ UNCHANGED <<db_in, log>>
    /\ UNCHANGED <<dst, should_install_fixtures, metadata, order, ti, out_table,
                   i, runs, faults, created, prev_ok, prev_dst>>

\* line 138, the flag being false
SkipFixtures ==
    /\ pc = "main"
    /\ ~should_install_fixtures
    /\ pc' = "copy_db"
    /\ UNCHANGED <<db_in, dst, should_install_fixtures, metadata, order, ti,
                   out_table, i, exc, raised_in, status, runs, faults, log,
                   created, prev_ok, prev_dst>>

\* lines 107-128: metadata.reflect with the listener, then the order of the loop
ReflectSchema ==
    /\ pc = "copy_db"
    /\ log' = Append(log, Event("reflect", "", ReflectErrors(db_in) = {}))
    /\ IF ReflectErrors(db_in) = {}
       THEN /\ metadata' = Reflect(db_in)
            /\ order' = Reverse(sorted_tables(metadata'))
            /\ ti' = 1
            /\ pc' = "loop"
            /\ UNCHANGED <<exc, raised_in, status>>
       ELSE /\ \E e \in ReflectErrors(db_in) : Raise(e, "genericize_datatypes")
            /\ UNCHANGED <<metadata, order, ti>>
    /\ UNCHANGED <<db_in, dst, should_install_fixtures, out_table, i, runs,
                   faults, created, prev_ok, prev_dst>>

\* lines 126: the source cannot be reflected (connection, privileges)
ReflectFails ==
    /\ pc = "copy_db"
    /\ faults < MaxFaults
    /\ faults' = faults + 1
    /\ log' = Append(log, Event("reflect", "", FALSE))
    /\ Raise("DBError", "copy_db")
    /\ UNCHANGED <<db_in, dst, should_install_fixtures, metadata, order, ti,
                   out_table, i, runs, created, prev_ok, prev_dst>>

\* lines 128-129 and 77-82: the next table of the loop, copy_table entered
CopyTableBegin ==
    /\ pc = "loop"
    /\ ti <= Len(order)
    /\ out_table' = DeriveOutTable(metadata, order[ti]).out_table
    /\ metadata' = DeriveOutTable(metadata, order[ti]).metadata
    /\ i' = 0
    /\ pc' = "drop"
    /\ UNCHANGED <<db_in, dst, should_install_fixtures, order, ti, exc,
                   raised_in, status, runs, faults, log, created, prev_ok,
                   prev_dst>>

\* line 84
Drop ==
    /\ pc = "drop"
    /\ dst' = DropIfExists(dst, out_table.name)
    /\ log' = Append(log, Event("drop", table.name, TRUE))
    /\ pc' = "create"
    /\ UNCHANGED <<db_in, should_install_fixtures, metadata, order, ti,
                   out_table, i, exc, raised_in, status, runs, faults, created,
                   prev_ok, prev_dst>>

DropFails ==
    /\ pc = "drop"
    /\ faults < MaxFaults
    /\ faults' = faults + 1
    /\ log' = Append(log, Event("drop", table.name, FALSE))
    /\ Raise("DBError", "copy_table")
    /\ UNCHANGED <<db_in, dst, should_install_fixtures, metadata, order, ti,
                   out_table, i, runs, created, prev_ok, prev_dst>>

\* line 86: the destination refuses to create a table that exists
Create ==
    /\ pc = "create"
    /\ log' = Append(log, Event("create", table.name, out_table.name \notin DOMAIN dst))
    /\ IF out_table.name \notin DOMAIN dst
       THEN /\ dst' = CreateTable(dst, out_table)
            /\ created' = created \cup {out_table.name}
            /\ pc' = "insert"
            /\ UNCHANGED <<exc, raised_in, status>>
       ELSE /\ Raise("TableExists", "copy_table")
            /\ UNCHANGED <<dst, created>>
    /\ UNCHANGED <<db_in, should_install_fixtures, metadata, order, ti,
                   out_table, i, runs, faults, prev_ok, prev_dst>>

CreateFails ==
    /\ pc = "create"
    /\ faults < MaxFaults
    /\ faults' = faults + 1
    /\ log' = Append(log, Event("create", table.name, FALSE))
    /\ Raise("DBError", "copy_table")
    /\ UNCHANGED <<db_in, dst, should_install_fixtures, metadata, order, ti,
                   out_table, i, runs, created, prev_ok, prev_dst>>

\* lines 92-99: one turn of the loop over the rows
Insert ==
    /\ pc = "insert"
    /\ i < Len(db_in[table.name].rows)
    /\ i' = i + 1
    /\ dst' = InsertRow(dst, out_table, FetchRow(db_in, table, i'))
    /\ log' = Append(log, Event("insert", table.name, TRUE))
    /\ UNCHANGED <<db_in, pc, should_install_fixtures, metadata, order, ti,
                   out_table, exc, raised_in, status, runs, faults, created,
                   prev_ok, prev_dst>>

InsertFails ==
    /\ pc = "insert"
    /\ i < Len(db_in[table.name].rows)
    /\ faults < MaxFaults
    /\ faults' = faults + 1
    /\ i' = i + 1
    /\ log' = Append(log, Event("insert", table.name, FALSE))
    /\ dst' = ConnectionExit(dst, out_table.name)
    /\ Raise("DBError", "copy_table")
    /\ UNCHANGED <<db_in, should_install_fixtures, metadata, order, ti,
                   out_table, runs, created, prev_ok, prev_dst>>

\* line 92, no row left: the connections close, copy_table returns
CopyTableEnd ==
    /\ pc = "insert"
    /\ i = Len(db_in[table.name].rows)
    /\ dst' = ConnectionExit(dst, out_table.name)
    /\ ti' = ti + 1
    /\ pc' = "loop"
    /\ UNCHANGED <<db_in, should_install_fixtures, metadata, order,
                   out_table, i, exc, raised_in, status, runs, faults, log,
                   created, prev_ok, prev_dst>>

\* line 128, no table left, and line 142: return 0
Return ==
    /\ pc = "loop"
    /\ ti > Len(order)
    /\ pc' = "returned"
    /\ status' = 0
    /\ UNCHANGED <<db_in, dst, should_install_fixtures, metadata, order, ti,
                   out_table, i, exc, raised_in, runs, faults, log, created,
                   prev_ok, prev_dst>>

Init == CopyInit /\ GtInit

Next ==
    \/ \E flag \in BOOLEAN : Main(flag) /\ UNCHANGED gt_vars
    \/ InstallFixtures /\ UNCHANGED gt_vars
    \/ SkipFixtures /\ UNCHANGED gt_vars
    \/ ReflectSchema /\ UNCHANGED gt_vars
    \/ ReflectFails /\ UNCHANGED gt_vars
    \/ CopyTableBegin /\ UNCHANGED gt_vars
    \/ Drop /\ UNCHANGED gt_vars
    \/ DropFails /\ UNCHANGED gt_vars
    \/ Create /\ UNCHANGED gt_vars
    \/ CreateFails /\ UNCHANGED gt_vars
    \/ Insert /\ UNCHANGED gt_vars
    \/ InsertFails /\ UNCHANGED gt_vars
    \/ CopyTableEnd /\ UNCHANGED gt_vars
    \/ Return /\ UNCHANGED gt_vars

Spec == Init /\ [][Next]_vars

\* get_generic_type alone, the databases standing still
InitTypes ==
    /\ GtInit
    /\ db_in = SourceDb(Schema({"users"}, {}), [t \in {"users"} |-> 1])
    /\ dst = EmptyDb
    /\ pc = "idle"
    /\ should_install_fixtures = FALSE
    /\ metadata = EmptyDb
    /\ order = <<>>
    /\ ti = 0
    /\ out_table = NoTable
    /\ i = 0
    /\ exc = "None"
    /\ raised_in = ""
    /\ status = -1
    /\ runs = 0
    /\ faults = 0
    /\ log = <<>>
    /\ created = {}
    /\ prev_ok = FALSE
    /\ prev_dst = dst

NextTypes ==
    \/ GtCall /\ UNCHANGED copy_vars
    \/ GtReturn /\ UNCHANGED copy_vars

SpecTypes == InitTypes /\ [][NextTypes]_vars

----------------------------------------------------------------------------
(* Vocabulary of the properties *)

Last(s) == s[Len(s)]

Count(s, x) == Cardinality({k \in DOMAIN s : s[k] = x})

SameBag(s1, s2) ==
    \A x \in Range(s1) \cup Range(s2) : Count(s1, x) = Count(s2, x)

\* the rows of a stored table, each as the mapping from column name to value
NamedRows(tbl) ==
    [k \in DOMAIN tbl.rows |->
        [n \in ColumnNames(tbl.columns) |->
            tbl.rows[k][CHOOSE j \in DOMAIN tbl.columns : tbl.columns[j].name = n]]]

DestName(t) == "dbin_" \o t

\* the tables whose copy_table has returned in the current run
Completed == {order[k] : k \in 1..(ti - 1)}

\* the operations of the current run on the destination, in order
DestEvents == SelectSeq(log, LAMBDA e : e.op \in {"drop", "create", "insert"})

\* source table t holds a foreign key to another table u
References(t, u) ==
    /\ t # u
    /\ [kind |-> "fk", ref |-> u] \in db_in[t].constraints

\* source table t lies on a cycle of foreign keys
OnForeignKeyCycle(t) ==
    LET E == {<<a, b>> \in (DOMAIN db_in) \X (DOMAIN db_in) : References(a, b)}
    IN  t \in Reachable(Children({t}, E), E, Cardinality(DOMAIN db_in))

----------------------------------------------------------------------------
(* C1: when copy_table(T) has completed normally, the destination table    *)
(* dbin_T holds exactly the multiset of the rows of T, each value under    *)
(* the column of the same name.                                            *)
C1_RowsCopiedExactlyOnce ==
    \A t \in Completed :
        /\ DestName(t) \in DOMAIN dst
        /\ SameBag(NamedRows(dst[DestName(t)]), NamedRows(db_in[t]))

\* a table with two equal rows, a table with two different rows and a table
\* without rows have been copied
C1_Witness ==
    /\ pc = "returned"
    /\ \E t \in Completed :
           Len(db_in[t].rows) = 2 /\ db_in[t].rows[1] = db_in[t].rows[2]
    /\ \E t \in Completed :
           Len(db_in[t].rows) = 2 /\ db_in[t].rows[1] # db_in[t].rows[2]
    /\ \E t \in Completed : Len(db_in[t].rows) = 0 /\ dst[DestName(t)].rows = <<>>

(* C2 as stated: after copy_db has returned, every source table T has a    *)
(* destination table dbin_T with one column per source column, the same    *)
(* names in the same order, each type that of get_generic_type and never   *)
(* the raw source type.                                                    *)
C2_ColumnsMirroredNeverRaw ==
    pc = "returned" =>
        \A t \in DOMAIN db_in :
            /\ DestName(t) \in DOMAIN dst
            /\ Len(dst[DestName(t)].columns) = Len(db_in[t].columns)
            /\ \A k \in DOMAIN db_in[t].columns :
                   /\ dst[DestName(t)].columns[k].name = db_in[t].columns[k].name
                   /\ dst[DestName(t)].columns[k].type
                          = get_generic_type(db_in[t].columns[k].type).val
                   /\ dst[DestName(t)].columns[k].type # db_in[t].columns[k].type

(* C2 amended: ... each type that of get_generic_type, which is the raw    *)
(* source type only for a type without generic equivalent.                 *)
C2_ColumnsMirrored ==
    pc = "returned" =>
        \A t \in DOMAIN db_in :
            /\ DestName(t) \in DOMAIN dst
            /\ Len(dst[DestName(t)].columns) = Len(db_in[t].columns)
            /\ \A k \in DOMAIN db_in[t].columns :
                   LET src == db_in[t].columns[k]
                       col == dst[DestName(t)].columns[k]
                   IN  /\ col.name = src.name
                       /\ col.type = get_generic_type(src.type).val
                       /\ \/ col.type.dialect = "generic"
                          \/ /\ col.type = src.type
                             /\ ~IsPostgresUUID(src.type)
                             /\ as_generic(src.type).exc = "NotImplementedError"

C2_Witness ==
    /\ pc = "returned"
    /\ {"users", "orders", "items"} \subseteq DOMAIN db_in

C4_Idempotent ==
    /\ exc # "TableExists"
    /\ (pc = "returned" /\ prev_ok) => dst = prev_dst

C4_Witness ==
    /\ pc = "returned"
    /\ prev_ok
    /\ "dbin_users" \in DOMAIN dst
    /\ Len(dst["dbin_users"].rows) = 2
    /\ "other" \in DOMAIN dst

\* the parts of C5 that do not depend on the foreign keys: one reflection,
\* before any operation on the destination; the operations on one table are
\* contiguous, and are drop, create, then inserts
ReflectedOnceAndFirst ==
    /\ Cardinality({k \in DOMAIN log : log[k].op = "reflect"}) <= 1
    /\ \A k \in DOMAIN log :
           log[k].op \in {"drop", "create", "insert"} =>
               \E j \in 1..(k - 1) : log[j].op = "reflect"

OneTableAtATime ==
    LET ev == DestEvents IN
    /\ \A a, b, c \in DOMAIN ev :
           (a < b /\ b < c /\ ev[a].table = ev[c].table) => ev[b].table = ev[a].table
    /\ \A k \in DOMAIN ev :
           LET first == k = 1 \/ ev[k - 1].table # ev[k].table IN
           /\ (ev[k].op = "drop") <=> first
           /\ (ev[k].op = "create") <=> (~first /\ ev[k - 1].op = "drop")

\* every table of Refs: once an operation on a table it references has
\* happened, the table has been processed, wholly before that operation
ProcessedBeforeReferenced(Refs) ==
    LET ev == DestEvents IN
    \A t \in Refs : \A u \in DOMAIN db_in :
        References(t, u) =>
            \A b \in DOMAIN ev :
                ev[b].table = u =>
                    /\ \E a \in 1..(b - 1) : ev[a].table = t
                    /\ \A a \in DOMAIN ev : ev[a].table = t => a < b

(* C5 as stated: one reflection, before any change of the destination;     *)
(* tables one at a time, drop, create, inserts; a table that references    *)
(* another is processed before the table it references.                    *)
C5_ReverseDependencyOrder ==
    /\ ReflectedOnceAndFirst
    /\ OneTableAtATime
    /\ ProcessedBeforeReferenced(DOMAIN db_in)

(* C5 amended: ... a table that references another and lies on no cycle of *)
(* foreign keys is processed before the table it references.               *)
C5_ReverseDependencyOrderOffCycles ==
    /\ ReflectedOnceAndFirst
    /\ OneTableAtATime
    /\ ProcessedBeforeReferenced({t \in DOMAIN db_in : ~OnForeignKeyCycle(t)})

C5_Witness ==
    /\ pc = "returned"
    /\ "items" \in DOMAIN db_in
    /\ References("items", "orders")
    /\ References("orders", "users")
    /\ \A t \in DOMAIN db_in : Len(db_in[t].rows) >= 2

(* C6: a failure of the drop, the create or an insert ends the run: it is  *)
(* the last operation of the run, the exception reaches the caller of      *)
(* main, and the status is not 0.                                          *)
C6_StopOnFirstFailure ==
    /\ \A k \in DOMAIN log :
           ~log[k].ok => (k = Len(log) /\ pc = "raised")
    /\ pc = "raised" => (exc # "None" /\ status # 0)
    /\ status = 0 => pc = "returned"

C6_Witness ==
    /\ pc = "raised"
    /\ exc = "DBError"
    /\ Len(log) > 0
    /\ Last(log).op \in {"drop", "create", "insert"}
    /\ ~Last(log).ok
    /\ ti >= 1
    /\ ti < Len(order)

(* C7: when the insert of the k-th row of a table fails, the destination   *)
(* table exists and holds the k-1 rows inserted before, and the tables     *)
(* copied earlier in the run hold all their rows.                          *)
C7_NoRollback ==
    (pc = "raised" /\ Len(log) > 0 /\ Last(log).op = "insert" /\ ~Last(log).ok) =>
        /\ out_table.name \in DOMAIN dst
        /\ SameBag(NamedRows(dst[out_table.name]),
                   SubSeq(NamedRows(db_in[order[ti]]), 1, i - 1))
        /\ Len(dst[out_table.name].rows) = i - 1
        /\ \A t \in Completed :
               /\ DestName(t) \in DOMAIN dst
               /\ Len(dst[DestName(t)].rows) = Len(db_in[t].rows)

C7_Witness ==
    /\ pc = "raised"
    /\ Len(log) > 0
    /\ Last(log).op = "insert"
    /\ ~Last(log).ok
    /\ i = 2
    /\ \E t \in Completed : Len(db_in[t].rows) > 0

(* C8: get_generic_type is the reference mapping: a PostgreSQL UUID gives  *)
(* a string of length 36; a type with a neutral form gives that form, with *)
(* length 512 when it is a string of length unset or zero, its own length  *)
(* otherwise; a type without neutral form (NotImplementedError) is         *)
(* returned as it is, without an exception.                                *)
C8_ReferenceMapping ==
    gt_pc \in {"returned", "raised"} =>
        /\ (gt_in.dialect = "postgresql" /\ gt_in.family = "UUID") =>
               gt_out = [exc |-> "None",
                         val |-> [dialect |-> "generic", family |-> "String",
                                  length |-> 36]]
        /\ (~IsPostgresUUID(gt_in) /\ as_generic(gt_in).exc = "None") =>
               /\ gt_out.exc = "None"
               /\ gt_out.val.dialect = "generic"
               /\ gt_out.val.family = gt_in.family
               /\ gt_out.val.length =
                      IF gt_in.family \in {"String", "Text"} /\ gt_in.length \in {None, 0}
                      THEN 512
                      ELSE gt_in.length
        /\ (~IsPostgresUUID(gt_in) /\ as_generic(gt_in).exc = "NotImplementedError") =>
               gt_out = [exc |-> "None", val |-> gt_in]

C8_Witness ==
    /\ gt_pc = "returned"
    /\ gt_in = [dialect |-> "postgresql", family |-> "Text", length |-> 0]
    /\ gt_out.val.length = 512

(* C9: no error of get_generic_type reaches the reflection of copy_db:     *)
(* whatever the conversion raises is caught and answered by the source     *)
(* type.                                                                   *)
C9_GetGenericTypeNeverRaises ==
    ~(pc = "raised" /\ raised_in = "genericize_datatypes")

(* C10: with should_install_fixtures true, the fixtures are installed      *)
(* before copy_db runs and before main ends; with the flag false the       *)
(* fixtures are not installed.                                             *)
C10_FixturesBeforeCopy ==
    /\ (should_install_fixtures /\ pc \notin {"idle", "main"}) =>
           (Len(log) > 0 /\ log[1] = Event("fixtures", "users", TRUE))
    /\ ~should_install_fixtures =>
           \A k \in DOMAIN log : log[k].op # "fixtures"

====
